---- MODULE Spec2Model ----
(***************************************************************************)
(* Finite differencing notebook (solutions/01-finite-differencing.ipynb):  *)
(* backward_differencing, forward_differencing, central_differencing, the  *)
(* convergence sweep over grid spacings, and the two extension exercises   *)
(* (fourth order central differencing, self convergence).                  *)
(*                                                                         *)
(* Numbers.  Python floats are modelled as exact rationals n/d in lowest   *)
(* terms (d > 0), so a stencil formula is decided by its algebra and not   *)
(* by rounding.  d = 0 encodes what numpy's division by zero produces:     *)
(* 1/0 = inf, -1/0 = -inf, 0/0 = nan.                                      *)
(***************************************************************************)
EXTENDS Integers, Sequences, FiniteSets, TLC

VARIABLES inputs, call, result, seen, gap, sweep, rates

vars == <<inputs, call, result, seen, gap, sweep, rates>>

(***************************************************************************)
(* Bounds of the model.                                                    *)
(***************************************************************************)
MaxCoef == 1
MaxX == 1
MaxDx == 2

----------------------------------------------------------------------------
(* Rational arithmetic.                                                    *)

Abs(i) == IF i < 0 THEN -i ELSE i

Sign(i) == IF i < 0 THEN -1 ELSE IF i = 0 THEN 0 ELSE 1

RECURSIVE GCD(_, _)
GCD(a, b) == IF b = 0 THEN a ELSE GCD(b, a % b)

\* n/d in lowest terms with d > 0; with d = 0 the sign of n alone (inf, nan).
Rat(n, d) ==
    IF d = 0 THEN [n |-> Sign(n), d |-> 0]
    ELSE LET g == GCD(Abs(n), Abs(d))
             s == Sign(d)
         IN  [n |-> (s * n) \div g, d |-> Abs(d) \div g]

I(i) == Rat(i, 1)

IsFinite(a) == a.d > 0
IsNaN(a) == a.d = 0 /\ a.n = 0
IsInf(a) == a.d = 0 /\ a.n # 0

\* a + b, a - b, a * b on finite rationals; denominators are combined through
\* their gcd so that intermediate products stay small.
RAdd(a, b) ==
    LET g == GCD(a.d, b.d)
    IN  Rat(a.n * (b.d \div g) + b.n * (a.d \div g), (a.d \div g) * b.d)

RNeg(a) == [n |-> -a.n, d |-> a.d]

RSub(a, b) == RAdd(a, RNeg(b))

RMul(a, b) ==
    LET g1 == GCD(Abs(a.n), b.d)
        g2 == GCD(Abs(b.n), a.d)
    IN  Rat((a.n \div g1) * (b.n \div g2), (a.d \div g2) * (b.d \div g1))

\* a / b for finite a, b; b = 0 gives inf, -inf or nan (IEEE).
RQuot(a, b) ==
    IF b.n = 0 THEN Rat(a.n, 0)
    ELSE RMul(a, [n |-> Sign(b.n) * b.d, d |-> Abs(b.n)])

RAbs(a) == [n |-> Abs(a.n), d |-> a.d]

RLess(a, b) == a.n * b.d < b.n * a.d

----------------------------------------------------------------------------
(* The function argument f.  A callable real -> real: a polynomial         *)
(* c[1] + c[2] t + ... + c[7] t^6 with integer coefficients, or (exp)      *)
(* numpy.exp, defined on lo <= t <= hi.  Outside it f raises, as math.sqrt *)
(* or math.log do below their domain ("ValueError") and math.exp does      *)
(* above its range ("OverflowError").  numpy tells whether f returns       *)
(* numpy.float64 (as numpy.exp does) or a Python float.                    *)

\* lo and hi are sets: empty (no bound) or one integer.
ValueError == "ValueError"
OverflowError == "OverflowError"
ZeroDivisionError == "ZeroDivisionError"

Ok(v) == [err |-> "", v |-> v]
Err(e) == [err |-> e, v |-> I(0)]
Failed(r) == r.err # ""

PolyEval(c, t) ==
    LET H6 == I(c[7])
        H5 == RAdd(I(c[6]), RMul(H6, t))
        H4 == RAdd(I(c[5]), RMul(H5, t))
        H3 == RAdd(I(c[4]), RMul(H4, t))
        H2 == RAdd(I(c[3]), RMul(H3, t))
        H1 == RAdd(I(c[2]), RMul(H2, t))
    IN  RAdd(I(c[1]), RMul(H1, t))

\* numpy.exp(t) to eight decimals: the Taylor series of exp in fixed point,
\* summed until its terms vanish.  (A double carries sixteen digits; eight
\* are what 32 bit integers leave room for.)
ExpScale == 10^8

RECURSIVE ExpSeries(_, _, _, _)
ExpSeries(term, k, n, d) ==
    IF term = 0 THEN 0
    ELSE term + ExpSeries(Sign(term * n) * (Abs(term * n) \div (d * k)), k + 1, n, d)

ExpR(t) == Rat(ExpSeries(ExpScale, 1, t.n, t.d), ExpScale)

\* f(t): the value, or the exception f raises at t.
Apply(f, t) ==
    IF \E b \in f.lo : RLess(t, I(b)) THEN Err(ValueError)
    ELSE IF \E b \in f.hi : RLess(I(b), t) THEN Err(OverflowError)
    ELSE IF f.exp THEN Ok(ExpR(t))
    ELSE Ok(PolyEval(f.c, t))

----------------------------------------------------------------------------
(* Python's true division a / b.  With a zero divisor a Python float       *)
(* raises ZeroDivisionError, a numpy.float64 operand yields inf or nan     *)
(* (and a RuntimeWarning).                                                 *)

\* Mutant: a zero divisor is guarded and answered with 0.
TrueDiv_guarded(a, b, numpy) ==
    IF b.n = 0 THEN Ok(I(0)) ELSE Ok(RQuot(a, b))

TrueDiv(a, b, numpy) ==
    IF b.n = 0 /\ ~numpy THEN Err(ZeroDivisionError) ELSE Ok(RQuot(a, b))

\* What a call leaves the caller with: the returned tuple or the exception
\* raised, and the arguments f was called with, in order.
Returned(val, evals) == [kind |-> "return", val |-> val, err |-> "", evals |-> evals]
Raised(e, evals) == [kind |-> "raise", val |-> <<>>, err |-> e, evals |-> evals]

\* Mutant: the difference is taken the wrong way round.
backward_differencing_swapped(f, x_i, dx) ==
    LET f_i == Apply(f, x_i) IN
    IF Failed(f_i) THEN Raised(f_i.err, <<x_i>>) ELSE
    LET f_i_minus_1 == Apply(f, RSub(x_i, dx))
        evals == <<x_i, RSub(x_i, dx)>>
    IN
    IF Failed(f_i_minus_1) THEN Raised(f_i_minus_1.err, evals) ELSE
    LET q == TrueDiv(RSub(f_i_minus_1.v, f_i.v), dx, f.numpy) IN
    IF Failed(q) THEN Raised(q.err, evals) ELSE Returned(<<q.v>>, evals)

\* Mutant: a failure of f is caught and answered with nan.
backward_differencing_catching(f, x_i, dx) ==
    LET f_i == Apply(f, x_i)
        f_i_minus_1 == Apply(f, RSub(x_i, dx))
        evals == <<x_i, RSub(x_i, dx)>>
    IN
    IF Failed(f_i) \/ Failed(f_i_minus_1) THEN Returned(<<Rat(0, 0)>>, evals) ELSE
    LET q == TrueDiv(RSub(f_i.v, f_i_minus_1.v), dx, f.numpy) IN
    IF Failed(q) THEN Raised(q.err, evals) ELSE Returned(<<q.v>>, evals)

backward_differencing(f, x_i, dx) ==
    LET f_i == Apply(f, x_i) IN
    IF Failed(f_i) THEN Raised(f_i.err, <<x_i>>) ELSE
    LET f_i_minus_1 == Apply(f, RSub(x_i, dx))
        evals == <<x_i, RSub(x_i, dx)>>
    IN
    IF Failed(f_i_minus_1) THEN Raised(f_i_minus_1.err, evals) ELSE
    LET q == TrueDiv(RSub(f_i.v, f_i_minus_1.v), dx, f.numpy) IN
    IF Failed(q) THEN Raised(q.err, evals) ELSE Returned(<<q.v>>, evals)

\* Mutant: the neighbour is taken on the wrong side (x_i - dx).
forward_differencing_left(f, x_i, dx) ==
    LET f_i == Apply(f, x_i) IN
    IF Failed(f_i) THEN Raised(f_i.err, <<x_i>>) ELSE
    LET f_i_plus_1 == Apply(f, RSub(x_i, dx))
        evals == <<x_i, RSub(x_i, dx)>>
    IN
    IF Failed(f_i_plus_1) THEN Raised(f_i_plus_1.err, evals) ELSE
    LET q == TrueDiv(RSub(f_i_plus_1.v, f_i.v), dx, f.numpy) IN
    IF Failed(q) THEN Raised(q.err, evals) ELSE Returned(<<q.v>>, evals)

\* Mutant: the last answer is kept in a global and handed out again whenever
\* the next call is at the same x_i.
forward_differencing_cached(f, x_i, dx) ==
    IF call.scheme = "forward" /\ call.x_i = x_i THEN result ELSE
    LET f_i == Apply(f, x_i) IN
    IF Failed(f_i) THEN Raised(f_i.err, <<x_i>>) ELSE
    LET f_i_plus_1 == Apply(f, RAdd(x_i, dx))
        evals == <<x_i, RAdd(x_i, dx)>>
    IN
    IF Failed(f_i_plus_1) THEN Raised(f_i_plus_1.err, evals) ELSE
    LET q == TrueDiv(RSub(f_i_plus_1.v, f_i.v), dx, f.numpy) IN
    IF Failed(q) THEN Raised(q.err, evals) ELSE Returned(<<q.v>>, evals)

forward_differencing(f, x_i, dx) ==
    LET f_i == Apply(f, x_i) IN
    IF Failed(f_i) THEN Raised(f_i.err, <<x_i>>) ELSE
    LET f_i_plus_1 == Apply(f, RAdd(x_i, dx))
        evals == <<x_i, RAdd(x_i, dx)>>
    IN
    IF Failed(f_i_plus_1) THEN Raised(f_i_plus_1.err, evals) ELSE
    LET q == TrueDiv(RSub(f_i_plus_1.v, f_i.v), dx, f.numpy) IN
    IF Failed(q) THEN Raised(q.err, evals) ELSE Returned(<<q.v>>, evals)

\* Mutant: the divisor is dx, not 2 dx.
first_derivative_dx(f_i_minus_1, f_i_plus_1, dx, numpy) ==
    TrueDiv(RSub(f_i_plus_1, f_i_minus_1), dx, numpy)

\* Line 169: first_derivative = (f_i_plus_1 - f_i_minus_1) / (2.0 * dx)
first_derivative(f_i_minus_1, f_i_plus_1, dx, numpy) ==
    TrueDiv(RSub(f_i_plus_1, f_i_minus_1), RMul(I(2), dx), numpy)

\* Mutant: dx*2 where dx**2 is meant.
second_derivative_times2(f_i_minus_1, f_i, f_i_plus_1, dx, numpy) ==
    TrueDiv(RAdd(RSub(f_i_minus_1, RMul(I(2), f_i)), f_i_plus_1),
            RMul(dx, I(2)), numpy)

\* Mutant: the divisor is dx, not dx**2.
second_derivative_dx(f_i_minus_1, f_i, f_i_plus_1, dx, numpy) ==
    TrueDiv(RAdd(RSub(f_i_minus_1, RMul(I(2), f_i)), f_i_plus_1), dx, numpy)

\* Line 170: second_derivative = (f_i_minus_1 - 2.0 * f_i + f_i_plus_1) / (dx**2)
second_derivative(f_i_minus_1, f_i, f_i_plus_1, dx, numpy) ==
    TrueDiv(RAdd(RSub(f_i_minus_1, RMul(I(2), f_i)), f_i_plus_1),
            RMul(dx, dx), numpy)

central_differencing(f, x_i, dx) ==
    LET f_i == Apply(f, x_i) IN
    IF Failed(f_i) THEN Raised(f_i.err, <<x_i>>) ELSE
    LET f_i_minus_1 == Apply(f, RSub(x_i, dx)) IN
    IF Failed(f_i_minus_1) THEN Raised(f_i_minus_1.err, <<x_i, RSub(x_i, dx)>>) ELSE
    LET f_i_plus_1 == Apply(f, RAdd(x_i, dx))
        evals == <<x_i, RSub(x_i, dx), RAdd(x_i, dx)>>
    IN
    IF Failed(f_i_plus_1) THEN Raised(f_i_plus_1.err, evals) ELSE
    LET d1 == first_derivative(f_i_minus_1.v, f_i_plus_1.v, dx, f.numpy) IN
    IF Failed(d1) THEN Raised(d1.err, evals) ELSE
    LET d2 == second_derivative(f_i_minus_1.v, f_i.v, f_i_plus_1.v, dx, f.numpy) IN
    IF Failed(d2) THEN Raised(d2.err, evals)
    ELSE Returned(<<d1.v, d2.v>>, evals)

\* The extension exercise "Higher order": the fourth order central
\* differencing approximations, on the five nodes x_i - 2 dx .. x_i + 2 dx.

\* Mutant: the outer nodes enter with the signs exchanged.
first_derivative_4_signs(f_i_minus_2, f_i_minus_1, f_i_plus_1, f_i_plus_2, dx, numpy) ==
    TrueDiv(RSub(RAdd(RSub(f_i_plus_2, RMul(I(8), f_i_plus_1)),
                      RMul(I(8), f_i_minus_1)),
                 f_i_minus_2),
            RMul(I(12), dx), numpy)

\* (-f_{i+2} + 8 f_{i+1} - 8 f_{i-1} + f_{i-2}) / (12 dx)
first_derivative_4(f_i_minus_2, f_i_minus_1, f_i_plus_1, f_i_plus_2, dx, numpy) ==
    TrueDiv(RAdd(RSub(RAdd(RNeg(f_i_plus_2), RMul(I(8), f_i_plus_1)),
                      RMul(I(8), f_i_minus_1)),
                 f_i_minus_2),
            RMul(I(12), dx), numpy)

\* (-f_{i-2} + 16 f_{i-1} - 30 f_i + 16 f_{i+1} - f_{i+2}) / (12 dx^2)
second_derivative_4(f_i_minus_2, f_i_minus_1, f_i, f_i_plus_1, f_i_plus_2, dx, numpy) ==
    TrueDiv(RSub(RAdd(RSub(RAdd(RNeg(f_i_minus_2), RMul(I(16), f_i_minus_1)),
                           RMul(I(30), f_i)),
                      RMul(I(16), f_i_plus_1)),
                 f_i_plus_2),
            RMul(I(12), RMul(dx, dx)), numpy)

central_differencing_4(f, x_i, dx) ==
    LET two_dx == RMul(I(2), dx)
        f_i == Apply(f, x_i)
    IN
    IF Failed(f_i) THEN Raised(f_i.err, <<x_i>>) ELSE
    LET f_i_minus_1 == Apply(f, RSub(x_i, dx)) IN
    IF Failed(f_i_minus_1) THEN Raised(f_i_minus_1.err, <<x_i, RSub(x_i, dx)>>) ELSE
    LET f_i_plus_1 == Apply(f, RAdd(x_i, dx)) IN
    IF Failed(f_i_plus_1)
    THEN Raised(f_i_plus_1.err, <<x_i, RSub(x_i, dx), RAdd(x_i, dx)>>) ELSE
    LET f_i_minus_2 == Apply(f, RSub(x_i, two_dx)) IN
    IF Failed(f_i_minus_2)
    THEN Raised(f_i_minus_2.err,
                <<x_i, RSub(x_i, dx), RAdd(x_i, dx), RSub(x_i, two_dx)>>) ELSE
    LET f_i_plus_2 == Apply(f, RAdd(x_i, two_dx))
        evals == <<x_i, RSub(x_i, dx), RAdd(x_i, dx),
                   RSub(x_i, two_dx), RAdd(x_i, two_dx)>>
    IN
    IF Failed(f_i_plus_2) THEN Raised(f_i_plus_2.err, evals) ELSE
    LET d1 == first_derivative_4(f_i_minus_2.v, f_i_minus_1.v,
                                 f_i_plus_1.v, f_i_plus_2.v, dx, f.numpy)
    IN
    IF Failed(d1) THEN Raised(d1.err, evals) ELSE
    LET d2 == second_derivative_4(f_i_minus_2.v, f_i_minus_1.v, f_i.v,
                                  f_i_plus_1.v, f_i_plus_2.v, dx, f.numpy)
    IN
    IF Failed(d2) THEN Raised(d2.err, evals)
    ELSE Returned(<<d1.v, d2.v>>, evals)

----------------------------------------------------------------------------
(* The inputs the model draws.                                             *)

Coefs == -MaxCoef .. MaxCoef

\* Polynomials of degree <= 2, with or without a domain bound on either side.
Functions ==
    { [c |-> <<c0, c1, c2, 0, 0, 0, 0>>, exp |-> FALSE, lo |-> lo, hi |-> hi, numpy |-> np] :
        c0 \in Coefs, c1 \in Coefs, c2 \in Coefs,
        lo \in {{}, {0}}, hi \in {{}, {1}}, np \in BOOLEAN }

Points == { I(x) : x \in -MaxX .. MaxX }

\* Grid spacings: integers (zero and negative ones too) and one half.
Spacings == { I(k) : k \in -MaxDx .. MaxDx } \cup { Rat(1, 2) }

\* The argument tuples (f, x_i, dx) the caller may pass.
Arguments == [f : Functions, x_i : Points, dx : Spacings]

NoFunction ==
    [c |-> <<0, 0, 0, 0, 0, 0, 0>>, exp |-> FALSE, lo |-> {}, hi |-> {}, numpy |-> FALSE]
NoCall == [scheme |-> "none", f |-> NoFunction, x_i |-> I(0), dx |-> I(0)]
NoResult == [kind |-> "none", val |-> <<>>, err |-> "", evals |-> <<>>]
NoSeen == [call |-> NoCall, result |-> NoResult]
NoSweep == [f |-> NoFunction, x_i |-> I(0), dxs |-> <<>>,
            bd_errors |-> <<>>, fd_errors |-> <<>>,
            cd1_errors |-> <<>>, cd2_errors |-> <<>>]
NoRate == [defined |-> FALSE, ratio |-> I(0), p |-> 0]
NoRates == [done |-> FALSE, bd |-> NoRate, fd |-> NoRate, cd1 |-> NoRate, cd2 |-> NoRate]

\* The caller holds one argument tuple and has called nothing yet.
Init ==
    /\ inputs \in { <<a>> : a \in Arguments }
    /\ call = NoCall
    /\ result = NoResult
    /\ seen = NoSeen
    /\ gap = FALSE
    /\ sweep = NoSweep
    /\ rates = NoRates

----------------------------------------------------------------------------
(* One action per function: the call, from its arguments to what it        *)
(* returns or raises.                                                      *)

Backward ==
    /\ call = NoCall
    /\ \E a \in { inputs[i] : i \in DOMAIN inputs } :
        /\ call' = [scheme |-> "backward", f |-> a.f, x_i |-> a.x_i, dx |-> a.dx]
        /\ result' = backward_differencing(a.f, a.x_i, a.dx)
    /\ UNCHANGED <<inputs, seen, gap, sweep, rates>>

Forward ==
    /\ call = NoCall
    /\ \E a \in { inputs[i] : i \in DOMAIN inputs } :
        /\ call' = [scheme |-> "forward", f |-> a.f, x_i |-> a.x_i, dx |-> a.dx]
        /\ result' = forward_differencing(a.f, a.x_i, a.dx)
    /\ UNCHANGED <<inputs, seen, gap, sweep, rates>>

Central ==
    /\ call = NoCall
    /\ \E a \in { inputs[i] : i \in DOMAIN inputs } :
        /\ call' = [scheme |-> "central", f |-> a.f, x_i |-> a.x_i, dx |-> a.dx]
        /\ result' = central_differencing(a.f, a.x_i, a.dx)
    /\ UNCHANGED <<inputs, seen, gap, sweep, rates>>

Central4 ==
    /\ call = NoCall
    /\ \E a \in { inputs[i] : i \in DOMAIN inputs } :
        /\ call' = [scheme |-> "central4", f |-> a.f, x_i |-> a.x_i, dx |-> a.dx]
        /\ result' = central_differencing_4(a.f, a.x_i, a.dx)
    /\ UNCHANGED <<inputs, seen, gap, sweep, rates>>

Next == Backward \/ Forward \/ Central \/ Central4

Spec == Init /\ [][Next]_vars

----------------------------------------------------------------------------
(* Repeated calls.  The caller holds two argument tuples and calls the     *)
(* three functions on them again and again, in any order.  seen keeps one  *)
(* earlier call with what it gave (any one: the caller may or may not      *)
(* note down the call just made before making the next), gap tells that    *)
(* another call was made since.                                            *)

RepeatFunctions ==
    { [c |-> <<0, 1, 1, 0, 0, 0, 0>>, exp |-> FALSE, lo |-> lo, hi |-> {}, numpy |-> np] :
        lo \in {{}, {0}}, np \in BOOLEAN }

RepeatArguments ==
    [f : RepeatFunctions, x_i : { I(x) : x \in 0 .. MaxX }, dx : { I(0), I(1) }]

InitRepeat ==
    /\ inputs \in { <<a, b>> : a \in RepeatArguments, b \in RepeatArguments }
    /\ call = NoCall
    /\ result = NoResult
    /\ seen = NoSeen
    /\ gap = FALSE
    /\ sweep = NoSweep
    /\ rates = NoRates

NoteDown ==
    \/ /\ call # NoCall
       /\ seen' = [call |-> call, result |-> result]
       /\ gap' = FALSE
    \/ /\ seen' = seen
       /\ gap' = (gap \/ (seen # NoSeen /\ call # seen.call))

BackwardAgain ==
    /\ \E a \in { inputs[i] : i \in DOMAIN inputs } :
        /\ call' = [scheme |-> "backward", f |-> a.f, x_i |-> a.x_i, dx |-> a.dx]
        /\ result' = backward_differencing(a.f, a.x_i, a.dx)
    /\ NoteDown
    /\ UNCHANGED <<inputs, sweep, rates>>

ForwardAgain ==
    /\ \E a \in { inputs[i] : i \in DOMAIN inputs } :
        /\ call' = [scheme |-> "forward", f |-> a.f, x_i |-> a.x_i, dx |-> a.dx]
        /\ result' = forward_differencing(a.f, a.x_i, a.dx)
    /\ NoteDown
    /\ UNCHANGED <<inputs, sweep, rates>>

CentralAgain ==
    /\ \E a \in { inputs[i] : i \in DOMAIN inputs } :
        /\ call' = [scheme |-> "central", f |-> a.f, x_i |-> a.x_i, dx |-> a.dx]
        /\ result' = central_differencing(a.f, a.x_i, a.dx)
    /\ NoteDown
    /\ UNCHANGED <<inputs, sweep, rates>>

NextRepeat == BackwardAgain \/ ForwardAgain \/ CentralAgain

SpecRepeat == InitRepeat /\ [][NextRepeat]_vars

----------------------------------------------------------------------------
(* Convergence.  The sweep cell runs the four estimates over a grid of     *)
(* spacings and keeps the errors against the known derivative (1.0 for     *)
(* numpy.exp at 0.0); the exercise "Self convergence" measures the rate    *)
(* from three estimates at dx, 2 dx, 4 dx without the exact value.         *)

\* The coefficients of the derivative of the polynomial c.
Deriv(c) == <<c[2], 2 * c[3], 3 * c[4], 4 * c[5], 5 * c[6], 6 * c[7], 0>>

ExpFunction ==
    [c |-> <<0, 0, 0, 0, 0, 0, 0>>, exp |-> TRUE, lo |-> {}, hi |-> {}, numpy |-> TRUE]

\* Test functions t + a t^m + b t^n with 2 <= m < n <= 6 (the constant and
\* the slope of f cancel in every error).
ConvFunctions ==
    { [c |-> [k \in 1 .. 7 |->
                IF k = 2 THEN 1 ELSE IF k = m + 1 THEN a ELSE IF k = n + 1 THEN b ELSE 0],
       exp |-> FALSE, lo |-> {}, hi |-> {}, numpy |-> TRUE] :
        a \in Coefs, b \in Coefs, m \in 2 .. 5, n \in 3 .. 6 }

\* A sweep: the function, the point, the grid of spacings, and the known
\* first and second derivative there.
ConvInputs ==
    { [f |-> f, x_i |-> I(x), dxs |-> <<I(h), I(2 * h), I(4 * h)>>,
       exact1 |-> PolyEval(Deriv(f.c), I(x)),
       exact2 |-> PolyEval(Deriv(Deriv(f.c)), I(x))] :
        f \in ConvFunctions, x \in -MaxX .. MaxX, h \in 1 .. MaxDx }
    \cup
    { [f |-> ExpFunction, x_i |-> I(0), dxs |-> g, exact1 |-> I(1), exact2 |-> I(1)] :
        g \in { <<Rat(1, 10), Rat(2, 10), Rat(4, 10)>>, <<Rat(1, 10), I(1)>> } }

InitConv ==
    /\ inputs \in { <<a>> : a \in ConvInputs }
    /\ call = NoCall
    /\ result = NoResult
    /\ seen = NoSeen
    /\ gap = FALSE
    /\ sweep = NoSweep
    /\ rates = NoRates

\* abs(estimate - exact)
AbsError(estimate, exact) == RAbs(RSub(estimate, exact))

\* The body of the loop, lines 284-288, on the estimates est[i] made at dxs[i].
SweepErrors(a, est) ==
    /\ \A i \in DOMAIN a.dxs :
        est[i].bd.kind = "return" /\ est[i].fd.kind = "return" /\ est[i].cd.kind = "return"
    /\ sweep' =
        [f |-> a.f, x_i |-> a.x_i, dxs |-> a.dxs,
         bd_errors |-> [i \in DOMAIN a.dxs |-> AbsError(est[i].bd.val[1], a.exact1)],
         fd_errors |-> [i \in DOMAIN a.dxs |-> AbsError(est[i].fd.val[1], a.exact1)],
         cd1_errors |-> [i \in DOMAIN a.dxs |-> AbsError(est[i].cd.val[1], a.exact1)],
         cd2_errors |-> [i \in DOMAIN a.dxs |-> AbsError(est[i].cd.val[2], a.exact2)]]

\* The three calls made at spacing dx.
Estimates(f, x_i, dx) ==
    [bd |-> backward_differencing(f, x_i, dx),
     fd |-> forward_differencing(f, x_i, dx),
     cd |-> central_differencing(f, x_i, dx)]

\* Lines 277-288: for i, dx in enumerate(dxs): the four errors.
Sweep ==
    /\ sweep = NoSweep
    /\ \E a \in { inputs[i] : i \in DOMAIN inputs } :
        \E est \in { [i \in DOMAIN a.dxs |-> Estimates(a.f, a.x_i, a.dxs[i])] } :
            SweepErrors(a, est)
    /\ UNCHANGED <<inputs, call, result, seen, gap, rates>>

\* floor(n * 2^k / d) for n, d >= 0, by long division.
RECURSIVE FixBin(_, _, _)
FixBin(n, d, k) ==
    IF k = 0 THEN n \div d
    ELSE (n \div d) * 2^k + FixBin(2 * (n % d), d, k - 1)

\* n/d > 0 brought into [1, 2): n/d = 2^e * (m.n / m.d).
RECURSIVE Mantissa(_, _, _)
Mantissa(n, d, e) ==
    IF n >= 2 * d THEN Mantissa(n, 2 * d, e + 1)
    ELSE IF n < d THEN Mantissa(2 * n, d, e - 1)
    ELSE [e |-> e, n |-> n, d |-> d]

\* The first k binary digits of log2(y / 2^14) for 2^14 <= y < 2^15, by
\* repeated squaring.
RECURSIVE Log2Digits(_, _)
Log2Digits(y, k) ==
    IF k = 0 THEN 0
    ELSE LET y2 == (y * y) \div 2^14
         IN  IF y2 >= 2^15 THEN 2^(k - 1) + Log2Digits(y2 \div 2, k - 1)
             ELSE Log2Digits(y2, k - 1)

\* log2(r) for r > 0, in units of 1/128.
Log2(r) ==
    LET m == Mantissa(r.n, r.d, 0)
    IN  128 * m.e + Log2Digits(FixBin(m.n, m.d, 14), 7)

\* Mutant: the two differences are exchanged.
self_convergence_inverted(F_4dx, F_2dx, F_dx) ==
    LET ratio == RAbs(RQuot(RSub(F_2dx, F_dx), RSub(F_4dx, F_2dx)))
    IN  IF IsFinite(ratio) /\ ratio.n > 0
        THEN [defined |-> TRUE, ratio |-> ratio, p |-> Log2(ratio)]
        ELSE [defined |-> FALSE, ratio |-> ratio, p |-> 0]

\* p = log2 | (F(4 dx) - F(2 dx)) / (F(2 dx) - F(dx)) |.  Not defined when
\* the quotient is 0, inf or nan (log2 gives -inf, inf, nan).
self_convergence(F_4dx, F_2dx, F_dx) ==
    LET ratio == RAbs(RQuot(RSub(F_4dx, F_2dx), RSub(F_2dx, F_dx)))
    IN  IF IsFinite(ratio) /\ ratio.n > 0
        THEN [defined |-> TRUE, ratio |-> ratio, p |-> Log2(ratio)]
        ELSE [defined |-> FALSE, ratio |-> ratio, p |-> 0]

\* The rates of the four estimates est[1], est[2], est[4] made at dx, 2 dx, 4 dx.
SelfConvergenceRates(est) ==
    /\ \A j \in DOMAIN est :
        est[j].bd.kind = "return" /\ est[j].fd.kind = "return" /\ est[j].cd.kind = "return"
    /\ rates' =
        [done |-> TRUE,
         bd |-> self_convergence(est[4].bd.val[1], est[2].bd.val[1], est[1].bd.val[1]),
         fd |-> self_convergence(est[4].fd.val[1], est[2].fd.val[1], est[1].fd.val[1]),
         cd1 |-> self_convergence(est[4].cd.val[1], est[2].cd.val[1], est[1].cd.val[1]),
         cd2 |-> self_convergence(est[4].cd.val[2], est[2].cd.val[2], est[1].cd.val[2])]

\* "Compute this self-convergence rate for all the cases above": the four
\* estimates at dx, 2 dx and 4 dx, and the rate of each.
SelfConvergence ==
    /\ ~rates.done
    /\ \E a \in { inputs[i] : i \in DOMAIN inputs } :
        /\ Len(a.dxs) = 3
        /\ \E est \in { [j \in {1, 2, 4} |->
                              Estimates(a.f, a.x_i, RMul(I(j), a.dxs[1]))] } :
            SelfConvergenceRates(est)
    /\ UNCHANGED <<inputs, call, result, seen, gap, sweep>>

NextConv == Sweep \/ SelfConvergence

SpecConv == InitConv /\ [][NextConv]_vars

----------------------------------------------------------------------------
(* What the claims speak of.                                               *)

\* The mathematical value f(t) and whether evaluating f at t raises.
Value(f, t) == PolyEval(f.c, t)
Fails(f, t) == Failed(Apply(f, t))

Range(seq) == { seq[i] : i \in DOMAIN seq }

\* The nodes of each stencil, in the order the code evaluates them.
Stencil(scheme, x, dx) ==
    CASE scheme = "backward" -> <<x, RSub(x, dx)>>
      [] scheme = "forward" -> <<x, RAdd(x, dx)>>
      [] scheme = "central" -> <<x, RSub(x, dx), RAdd(x, dx)>>
      [] scheme = "central4" -> <<x, RSub(x, dx), RAdd(x, dx),
                                  RSub(x, RMul(I(2), dx)), RAdd(x, RMul(I(2), dx))>>
      [] OTHER -> <<>>

\* The first node of the stencil at which f raises, 0 when it raises at none.
FirstFailure(f, nodes) ==
    IF \E i \in DOMAIN nodes : Fails(f, nodes[i])
    THEN CHOOSE i \in DOMAIN nodes :
            /\ Fails(f, nodes[i])
            /\ \A j \in 1 .. (i - 1) : ~Fails(f, nodes[j])
    ELSE 0

Evaluates(f, nodes) == FirstFailure(f, nodes) = 0

StencilSchemes == {"backward", "forward", "central"}

\* C1: for dx # 0, central_differencing evaluates f only at x_i - dx, x_i and
\* x_i + dx and, when f evaluates there, returns the pair (first, second) with
\* first * (2 dx) = f(x_i + dx) - f(x_i - dx) and
\* second * dx^2 = f(x_i - dx) - 2 f(x_i) + f(x_i + dx).
C1_CentralFormulas ==
    (call.scheme = "central" /\ call.dx # I(0)) =>
        LET f == call.f
            x == call.x_i
            dx == call.dx
            xm == RSub(x, dx)
            xp == RAdd(x, dx)
        IN  /\ Range(result.evals) \subseteq {xm, x, xp}
            /\ result.kind = "return" => Evaluates(f, <<xm, x, xp>>)
            /\ Evaluates(f, <<xm, x, xp>>) =>
                /\ result.kind = "return"
                /\ Len(result.val) = 2
                /\ RMul(result.val[1], RMul(I(2), dx))
                     = RSub(Value(f, xp), Value(f, xm))
                /\ RMul(result.val[2], RMul(dx, dx))
                     = RAdd(RSub(Value(f, xm), RMul(I(2), Value(f, x))), Value(f, xp))
                /\ IsFinite(result.val[1]) /\ IsFinite(result.val[2])
                /\ Range(result.evals) = {xm, x, xp}

\* A central call with dx # 0 that returned two different nonzero derivatives.
C1_Witness ==
    /\ call.scheme = "central" /\ call.dx # I(0)
    /\ result.kind = "return"
    /\ result.val[1] # I(0) /\ result.val[2] # I(0)
    /\ result.val[1] # result.val[2]

\* C2: for dx # 0, forward_differencing evaluates f only at x_i and x_i + dx
\* and, when f evaluates there, returns q with q * dx = f(x_i + dx) - f(x_i).
C2_ForwardFormula ==
    (call.scheme = "forward" /\ call.dx # I(0)) =>
        LET f == call.f
            x == call.x_i
            dx == call.dx
            xp == RAdd(x, dx)
        IN  /\ Range(result.evals) \subseteq {x, xp}
            /\ result.kind = "return" => Evaluates(f, <<x, xp>>)
            /\ Evaluates(f, <<x, xp>>) =>
                /\ result.kind = "return"
                /\ Len(result.val) = 1
                /\ IsFinite(result.val[1])
                /\ RMul(result.val[1], dx) = RSub(Value(f, xp), Value(f, x))
                /\ Range(result.evals) = {x, xp}

\* A forward call with dx # 0 that returned a nonzero, non-integer slope.
C2_Witness ==
    /\ call.scheme = "forward" /\ call.dx # I(0)
    /\ result.kind = "return"
    /\ result.val[1].d > 1

\* C3: for dx # 0, backward_differencing evaluates f only at x_i and x_i - dx
\* and, when f evaluates there, returns q with q * dx = f(x_i) - f(x_i - dx).
C3_BackwardFormula ==
    (call.scheme = "backward" /\ call.dx # I(0)) =>
        LET f == call.f
            x == call.x_i
            dx == call.dx
            xm == RSub(x, dx)
        IN  /\ Range(result.evals) \subseteq {x, xm}
            /\ result.kind = "return" => Evaluates(f, <<x, xm>>)
            /\ Evaluates(f, <<x, xm>>) =>
                /\ result.kind = "return"
                /\ Len(result.val) = 1
                /\ IsFinite(result.val[1])
                /\ RMul(result.val[1], dx) = RSub(Value(f, x), Value(f, xm))
                /\ Range(result.evals) = {x, xm}

\* A backward call with a negative spacing that returned a negative slope.
C3_Witness ==
    /\ call.scheme = "backward" /\ call.dx.n < 0
    /\ result.kind = "return"
    /\ result.val[1].n < 0

\* C5: when f raises at a node of the stencil, the call raises that very
\* exception (that of the first node, in evaluation order, at which f raises),
\* returns nothing, and has called f on the nodes up to that one, once each.
C5_FailurePropagates ==
    call.scheme \in StencilSchemes =>
        LET nodes == Stencil(call.scheme, call.x_i, call.dx)
            k == FirstFailure(call.f, nodes)
        IN  k # 0 =>
                /\ result.kind = "raise"
                /\ result.err = Apply(call.f, nodes[k]).err
                /\ result.val = <<>>
                /\ result.evals = SubSeq(nodes, 1, k)

\* A central call in which f evaluated at x_i and x_i - dx and raised
\* OverflowError at x_i + dx.
C5_Witness ==
    /\ call.scheme = "central"
    /\ result.kind = "raise"
    /\ result.err = OverflowError
    /\ Len(result.evals) = 3

\* C6: with dx = 0 no call returns a finite number: when f evaluates, the
\* call raises ZeroDivisionError or returns inf or nan in every component.
C6_ZeroSpacingUnguarded ==
    (call.scheme \in StencilSchemes /\ call.dx = I(0)) =>
        /\ result.kind = "return" => \A i \in DOMAIN result.val : ~IsFinite(result.val[i])
        /\ ~Fails(call.f, call.x_i) =>
            \/ result.kind = "raise" /\ result.err = ZeroDivisionError
            \/ /\ result.kind = "return"
               /\ result.val # <<>>
               /\ \A i \in DOMAIN result.val : ~IsFinite(result.val[i])

\* A central call with dx = 0 on numpy values, which returned (nan, nan).
C6_Witness ==
    /\ call.scheme = "central" /\ call.dx = I(0)
    /\ result.kind = "return"
    /\ Len(result.val) = 2
    /\ IsNaN(result.val[1]) /\ IsNaN(result.val[2])

\* C4: the fourth order central scheme, for dx > 0: it evaluates f only at
\* x - 2dx .. x + 2dx and, when f evaluates there, returns (first, second) with
\* first * (12 dx) = -f(x+2dx) + 8 f(x+dx) - 8 f(x-dx) + f(x-2dx) and
\* second * (12 dx^2) = -f(x-2dx) + 16 f(x-dx) - 30 f(x) + 16 f(x+dx) - f(x+2dx).
C4_FourthOrderFormulas ==
    (call.scheme = "central4" /\ call.dx.n > 0) =>
        LET f == call.f
            x == call.x_i
            dx == call.dx
            nodes == Stencil("central4", x, dx)
            F(k) == Value(f, RAdd(x, RMul(I(k), dx)))
        IN  /\ Range(result.evals) \subseteq Range(nodes)
            /\ result.kind = "return" => Evaluates(f, nodes)
            /\ Evaluates(f, nodes) =>
                /\ result.kind = "return"
                /\ Len(result.val) = 2
                /\ IsFinite(result.val[1]) /\ IsFinite(result.val[2])
                /\ RMul(result.val[1], RMul(I(12), dx))
                     = RAdd(RSub(RSub(RMul(I(8), F(1)), F(2)), RMul(I(8), F(-1))), F(-2))
                /\ RMul(result.val[2], RMul(I(12), RMul(dx, dx)))
                     = RSub(RAdd(RSub(RSub(RMul(I(16), F(-1)), F(-2)), RMul(I(30), F(0))),
                                 RMul(I(16), F(1))),
                            F(2))

\* A fourth order call with dx > 0 that returned two different nonzero values.
C4_Witness ==
    /\ call.scheme = "central4" /\ call.dx.n > 0
    /\ result.kind = "return"
    /\ result.val[1] # I(0) /\ result.val[2] # I(0)
    /\ result.val[1] # result.val[2]

----------------------------------------------------------------------------
(* Convergence: what the claims speak of.                                  *)

\* The Taylor coefficients A[k] = f^(k)(x) / k! of the polynomial f at x, for
\* k = 2 .. 6: f(x + h) = f(x) + f'(x) h + A[2] h^2 + .. + A[6] h^6.
Taylor(f, x) ==
    LET d2 == Deriv(Deriv(f.c))
        d3 == Deriv(d2)
        d4 == Deriv(d3)
        d5 == Deriv(d4)
        d6 == Deriv(d5)
    IN  [k \in 2 .. 6 |->
            CASE k = 2 -> RQuot(PolyEval(d2, x), I(2))
              [] k = 3 -> RQuot(PolyEval(d3, x), I(6))
              [] k = 4 -> RQuot(PolyEval(d4, x), I(24))
              [] k = 5 -> RQuot(PolyEval(d5, x), I(120))
              [] k = 6 -> RQuot(PolyEval(d6, x), I(720))]

RECURSIVE RPow(_, _)
RPow(h, k) == IF k = 0 THEN I(1) ELSE RMul(h, RPow(h, k - 1))

\* estimate - f'(x) of the forward difference at spacing h; of the backward
\* difference at spacing -h.
OneSidedError(A, h) ==
    RAdd(RAdd(RAdd(RAdd(RMul(A[2], h), RMul(A[3], RPow(h, 2))),
                   RMul(A[4], RPow(h, 3))),
              RMul(A[5], RPow(h, 4))),
         RMul(A[6], RPow(h, 5)))

\* estimate - f'(x) of the central first derivative at spacing h.
CentralFirstError(A, h) == RAdd(RMul(A[3], RPow(h, 2)), RMul(A[5], RPow(h, 4)))

\* estimate - f''(x) of the central second derivative at spacing h.
CentralSecondError(A, h) ==
    RMul(I(2), RAdd(RMul(A[4], RPow(h, 2)), RMul(A[6], RPow(h, 4))))

\* The indices among ks whose Taylor coefficient is not zero.
NonZero(A, ks) == { k \in ks : A[k] # I(0) }

\* floor(n * 10^k / d) for n, d >= 0, by long division.
RECURSIVE FixDec(_, _, _)
FixDec(n, d, k) ==
    IF k = 0 THEN n \div d
    ELSE (n \div d) * 10^k + FixDec(10 * (n % d), d, k - 1)

\* An error 0 <= e < 1000, in millionths.
Micro(e) == FixDec(e.n, e.d, 6)

\* The observed order between the spacings h and k h is p to the nearest
\* integer: k^(p - 1/2) < E / e < k^(p + 1/2), e and E the errors at h and
\* k h.  The two bounds in hundredths, for k = 2 and k = 10
\* (sqrt(2) = 1.414.., sqrt(10) = 3.162..):
OrderBounds(k, p) ==
    CASE k = 2 /\ p = 1 -> [lo |-> 142, hi |-> 282]
      [] k = 2 /\ p = 2 -> [lo |-> 283, hi |-> 565]
      [] k = 10 /\ p = 1 -> [lo |-> 317, hi |-> 3162]
      [] k = 10 /\ p = 2 -> [lo |-> 3163, hi |-> 31622]

\* floor(100 E / e): exactly where the errors are whole numbers (polynomials
\* on a grid of integers), from their millionths otherwise.
Ratio100(e, E) ==
    IF e.d = 1 /\ E.d = 1 THEN (100 * E.n) \div e.n
    ELSE (100 * Micro(E)) \div Micro(e)

ObservedOrder(e, E, k, p) ==
    /\ e.n > 0
    /\ OrderBounds(k, p).lo <= Ratio100(e, E)
    /\ Ratio100(e, E) < OrderBounds(k, p).hi

\* The errors errs[i], errs[i+1] at consecutive spacings of the sweep show
\* order p.
ObservedOrderAlong(errs, p) ==
    \A i \in 1 .. (Len(errs) - 1) :
        ObservedOrder(errs[i], errs[i + 1],
                      RQuot(sweep.dxs[i + 1], sweep.dxs[i]).n, p)

PolySweep == sweep # NoSweep /\ ~sweep.f.exp
ExpSweep == sweep # NoSweep /\ sweep.f.exp

\* C8 as stated: whatever f, the error of each component of central_differencing
\* shrinks by about k^2 when dx shrinks by k.  Taken where the error is a
\* single power of dx, so that the observed order is the same at every dx:
\* halving dx divides the error by about 4.
C8_AlwaysSecondOrder ==
    PolySweep =>
        \A A \in { Taylor(sweep.f, sweep.x_i) } :
            /\ Cardinality(NonZero(A, {3, 5})) = 1 =>
                    ObservedOrderAlong(sweep.cd1_errors, 2)
            /\ Cardinality(NonZero(A, {4, 6})) = 1 =>
                    ObservedOrderAlong(sweep.cd2_errors, 2)

\* C8, amended: the error of the first derivative is |f'''(x)/6 dx^2 + (a term
\* in dx^4)| and that of the second |f''''(x)/12 dx^2 + (a term in dx^4)|, so
\* the observed order is 2 where f'''(x) # 0 (resp. f''''(x) # 0) and dx is
\* small: exactly 2 (halving dx divides the error by 4) when the dx^4 term is
\* absent, and for numpy.exp at 0 the errors shrink by about 100 from dx = 1.0
\* to 0.1 and by about 4 along 0.4, 0.2, 0.1.
C8_SecondOrderLeadingTerm ==
    /\ PolySweep =>
        \A A \in { Taylor(sweep.f, sweep.x_i) } :
            /\ \A i \in DOMAIN sweep.dxs :
                /\ sweep.cd1_errors[i] = RAbs(CentralFirstError(A, sweep.dxs[i]))
                /\ sweep.cd2_errors[i] = RAbs(CentralSecondError(A, sweep.dxs[i]))
            /\ \A i \in 1 .. (Len(sweep.dxs) - 1) :
                /\ A[5] = I(0) =>
                    sweep.cd1_errors[i + 1] = RMul(I(4), sweep.cd1_errors[i])
                /\ A[6] = I(0) =>
                    sweep.cd2_errors[i + 1] = RMul(I(4), sweep.cd2_errors[i])
            /\ (A[3] # I(0) /\ A[5] = I(0)) => ObservedOrderAlong(sweep.cd1_errors, 2)
            /\ (A[4] # I(0) /\ A[6] = I(0)) => ObservedOrderAlong(sweep.cd2_errors, 2)
    /\ ExpSweep =>
        /\ ObservedOrderAlong(sweep.cd1_errors, 2)
        /\ ObservedOrderAlong(sweep.cd2_errors, 2)

\* The sweep of numpy.exp at 0 over dx = 0.1, 1.0 has run; both central errors
\* at 1.0 are between 90 and 110 times those at 0.1.
C8_Witness ==
    /\ ExpSweep
    /\ sweep.dxs = <<Rat(1, 10), I(1)>>
    /\ Ratio100(sweep.cd1_errors[1], sweep.cd1_errors[2]) \in 9000 .. 11000
    /\ Ratio100(sweep.cd2_errors[1], sweep.cd2_errors[2]) \in 9000 .. 11000

\* C9 as stated: whatever f, the error of the forward and of the backward
\* difference halves when dx halves.  Taken where the error is a single power
\* of dx, so that the observed order is the same at every dx.
C9_AlwaysFirstOrder ==
    PolySweep =>
        \A A \in { Taylor(sweep.f, sweep.x_i) } :
            Cardinality(NonZero(A, 2 .. 6)) = 1 =>
                /\ ObservedOrderAlong(sweep.fd_errors, 1)
                /\ ObservedOrderAlong(sweep.bd_errors, 1)

\* C9, amended: the error of the forward difference is |f''(x)/2 dx + (terms
\* in dx^2 ..)| and that of the backward difference the same with -dx for dx,
\* so the observed order is 1 where f''(x) # 0 and dx is small: exactly 1
\* (halving dx halves the error) for a quadratic f, and for numpy.exp at 0 the
\* errors shrink by about 10 from dx = 1.0 to 0.1 and by about 2 along
\* 0.4, 0.2, 0.1.
C9_FirstOrderLeadingTerm ==
    /\ PolySweep =>
        \A A \in { Taylor(sweep.f, sweep.x_i) } :
            /\ \A i \in DOMAIN sweep.dxs :
                /\ sweep.fd_errors[i] = RAbs(OneSidedError(A, sweep.dxs[i]))
                /\ sweep.bd_errors[i] = RAbs(OneSidedError(A, RNeg(sweep.dxs[i])))
            /\ NonZero(A, 3 .. 6) = {} =>
                /\ \A i \in 1 .. (Len(sweep.dxs) - 1) :
                    /\ sweep.fd_errors[i + 1] = RMul(I(2), sweep.fd_errors[i])
                    /\ sweep.bd_errors[i + 1] = RMul(I(2), sweep.bd_errors[i])
                /\ A[2] # I(0) =>
                    /\ ObservedOrderAlong(sweep.fd_errors, 1)
                    /\ ObservedOrderAlong(sweep.bd_errors, 1)
    /\ ExpSweep =>
        /\ ObservedOrderAlong(sweep.fd_errors, 1)
        /\ ObservedOrderAlong(sweep.bd_errors, 1)

\* The sweep of numpy.exp at 0 over dx = 0.1, 1.0 has run; the forward and
\* backward errors at 1.0 are between 5 and 20 times those at 0.1.
C9_Witness ==
    /\ ExpSweep
    /\ sweep.dxs = <<Rat(1, 10), I(1)>>
    /\ Ratio100(sweep.fd_errors[1], sweep.fd_errors[2]) \in 500 .. 2000
    /\ Ratio100(sweep.bd_errors[1], sweep.bd_errors[2]) \in 500 .. 2000

\* The rate r.p is log2 of the quotient r.ratio, to 1/128: the quotient lies
\* between 2^q and 2^(q+1), q the integer part of the rate.
RateMatchesRatio(r) ==
    r.defined =>
        LET q == r.p \div 128
        IN  /\ IsFinite(r.ratio) /\ r.ratio.n > 0
            /\ IF q >= 0
               THEN /\ ~RLess(r.ratio, I(2^q))
                    /\ RLess(r.ratio, I(2^(q + 1)))
               ELSE /\ ~RLess(RMul(r.ratio, I(2^(-q))), I(1))
                    /\ RLess(RMul(r.ratio, I(2^(-q))), I(2))

\* The rate r is exactly p: the quotient is 2^p.
RateIs(r, p) == r.defined /\ r.ratio = I(2^p) /\ r.p = 128 * p

\* C10: the self convergence rate of a scheme is log2 of the quotient
\* |(F(4dx) - F(2dx)) / (F(2dx) - F(dx))| where F(2dx) # F(dx), the differences
\* of the estimates being those of the scheme's errors; where the error is a
\* single term C dx^p the quotient is 2^p and the rate p; for numpy.exp at 0
\* with dx = 0.1, 0.2, 0.4 the rates of both central estimates are within 0.05
\* of 2.
C10_SelfConvergenceRate ==
    rates.done =>
        \A A \in { Taylor(inputs[1].f, inputs[1].x_i) } :
        LET a == inputs[1]
            h == a.dxs[1]
            D(E(_, _), j) == RSub(E(A, RMul(I(2 * j), h)), E(A, RMul(I(j), h)))
            Quotient(E(_, _)) == RAbs(RQuot(D(E, 2), D(E, 1)))
            Back(B, t) == OneSidedError(B, RNeg(t))
            Single(ks) == Cardinality(NonZero(A, ks)) = 1
            Power(ks, lo) == (CHOOSE k \in NonZero(A, ks) : TRUE) - lo
        IN  /\ RateMatchesRatio(rates.bd) /\ RateMatchesRatio(rates.fd)
            /\ RateMatchesRatio(rates.cd1) /\ RateMatchesRatio(rates.cd2)
            /\ ~a.f.exp =>
                /\ D(OneSidedError, 1) # I(0) =>
                        rates.fd.ratio = Quotient(OneSidedError)
                /\ D(Back, 1) # I(0) => rates.bd.ratio = Quotient(Back)
                /\ D(CentralFirstError, 1) # I(0) =>
                        rates.cd1.ratio = Quotient(CentralFirstError)
                /\ D(CentralSecondError, 1) # I(0) =>
                        rates.cd2.ratio = Quotient(CentralSecondError)
                /\ Single(2 .. 6) =>
                    /\ RateIs(rates.fd, Power(2 .. 6, 1))
                    /\ RateIs(rates.bd, Power(2 .. 6, 1))
                /\ Single({3, 5}) => RateIs(rates.cd1, Power({3, 5}, 1))
                /\ Single({4, 6}) => RateIs(rates.cd2, Power({4, 6}, 2))
            /\ a.f.exp =>
                /\ rates.cd1.defined /\ rates.cd1.p \in 250 .. 262
                /\ rates.cd2.defined /\ rates.cd2.p \in 250 .. 262

\* The rates of numpy.exp at 0 with dx = 0.1, 0.2, 0.4 have been measured: the
\* central ones are about 2 without the quotient being 4, the one-sided ones
\* about 1.
C10_Witness ==
    /\ rates.done
    /\ inputs[1].f.exp
    /\ rates.cd1.defined /\ rates.cd1.ratio # I(4) /\ rates.cd1.p \in 250 .. 262
    /\ rates.cd2.defined /\ rates.cd2.p \in 250 .. 262
    /\ rates.fd.defined /\ rates.fd.p \in 96 .. 160
    /\ rates.bd.defined /\ rates.bd.p \in 96 .. 160

====
